---- MODULE Spec2Model ----
(***************************************************************************)
(* Model of the data reconciliation pipeline of the VDD sales analysis     *)
(* repository: dashboard.load_data (src/dashboard.py) with the module code *)
(* that calls it and reports on its result, and the data preparation, the  *)
(* basket matrix and the daily revenue of src/sales_analysis.py.           *)
(*                                                                         *)
(* A DataFrame is a sequence of rows (records).  The field idx of a row is  *)
(* the index label pd.read_excel gave the raw SalesData row it was made     *)
(* from; the model carries it through the merges and the explosion as a    *)
(* column, so that a row of a view can be traced to its raw transaction.   *)
(* A missing string cell is NULL, a missing number or date is NaN.         *)
(***************************************************************************)
EXTENDS Integers, Sequences, FiniteSets, TLC

VARIABLES
    src_sales,             \* sheet SalesData as stored in the source
    src_name_ref,          \* sheet nameRef
    src_combo_ref,         \* sheet comboRef
    src_readable,          \* whether data.xlsx can be read at all
    src_has_status,        \* whether SalesData has a Status column
    src_absent,            \* the optional columns SalesData does not have
    gs_enabled,            \* GSHEETS_AVAILABLE and the service account secret is set
    gs_readable,           \* whether the Google Sheets spreadsheet can be read
    now,                   \* the clock, in seconds
    cache,                 \* the entry st.cache_data holds for load_data
    trigger,               \* what started the current run of the dashboard script
    loads,                 \* how many times the body of load_data has run
    load_log,              \* the sources the last call of load_data tried to read
    pc,                    \* position of the dashboard script (module level)
    df_revenue,            \* dashboard.py:243, first element of load_data's result
    df_quantity,           \* dashboard.py:243, second element
    st_errors,             \* messages shown through st.error
    sa_pc,                 \* position of sales_analysis.py
    df_revenue_analysis,   \* sales_analysis.py:105
    df_quantity_analysis,  \* sales_analysis.py:199
    sa_basket_binary,      \* sales_analysis.py:457
    sa_daily_revenue,      \* sales_analysis.py:565
    today,                 \* the day pd.Timestamp.now() falls on, counted from a Monday
    selected,              \* the values of the sidebar and timeline widgets
    df_filtered,           \* dashboard.py:280-300
    metrics,               \* dashboard.py:313-343, the summary metrics row
    week_of_month_revenue, \* dashboard.py:601
    basket_binary,         \* dashboard.py:1206
    daily_revenue,         \* dashboard.py:1284
    weeks_forecast,        \* dashboard.py:1636-1644, as tab8 computed them last
    weeks_targets          \* dashboard.py:1888-1896, as tab9 computed them last

\* the source, which the programs only read
src_vars == <<src_sales, src_name_ref, src_combo_ref, src_readable, src_has_status,
              src_absent, gs_enabled, gs_readable>>
\* what sales_analysis.py writes
sa_vars == <<sa_pc, df_revenue_analysis, df_quantity_analysis, sa_basket_binary,
            sa_daily_revenue>>
\* what the reporting code of the dashboard writes
rep_vars == <<selected, df_filtered, metrics, week_of_month_revenue, basket_binary,
             daily_revenue, weeks_forecast, weeks_targets>>

vars == <<src_vars, now, cache, trigger, loads, load_log, pc, df_revenue, df_quantity,
          st_errors, sa_vars, today, rep_vars>>

-----------------------------------------------------------------------------
(* Values *)

NULL == "<NA>"
NaN == 0 - 1
Unknown == "Unknown"

NoneValue == [is_none |-> TRUE, rows |-> <<>>]
DataFrame(rows) == [is_none |-> FALSE, rows |-> rows]

notna(x) == x # NULL
\* pandas ==: a missing value equals nothing, not even another missing value
pd_eq(a, b) == a # NULL /\ b # NULL /\ a = b
\* merge, isin and drop_duplicates: missing keys match each other
key_eq(a, b) == a = b
fillna(x, d) == IF x = NULL THEN d ELSE x

\* pd.to_numeric(errors='coerce')
to_numeric(s) ==
    CASE s = "1" -> 1
      [] s = "2" -> 2
      [] s = "3" -> 3
      [] OTHER -> NaN

\* only the dates of April are understood
to_datetime_april(s) ==
    CASE s = "2025-04-01" -> 20250401
      [] s = "2025-04-29" -> 20250429
      [] OTHER -> NaN

\* pd.to_datetime(errors='coerce'), a date as the number yyyymmdd
to_datetime(s) ==
    CASE s = "2025-04-01" -> 20250401
      [] s = "2025-04-29" -> 20250429
      [] s = "2025-05-01" -> 20250501
      [] s = "2025-05-17" -> 20250517
      [] OTHER -> NaN

dt_year(d) == IF d = NaN THEN NaN ELSE d \div 10000
dt_month(d) == IF d = NaN THEN NaN ELSE (d \div 100) % 100
\* Timestamp.day
dt_day(d) == d % 100

\* Series.dt.isocalendar().week
dt_week(d) ==
    CASE d = 20250401 -> 14
      [] d = 20250429 -> 18
      [] d = 20250501 -> 18
      [] d = 20250517 -> 20
      [] OTHER -> NaN

\* Series.dt.day_name()
dt_day_name(d) ==
    CASE d = 20250401 -> "Tuesday"
      [] d = 20250429 -> "Tuesday"
      [] d = 20250501 -> "Thursday"
      [] d = 20250517 -> "Saturday"
      [] OTHER -> NULL

is_leap(y) == (y % 4 = 0 /\ y % 100 # 0) \/ y % 400 = 0

days_in_month(y, m) ==
    CASE m = 2 -> IF is_leap(y) THEN 29 ELSE 28
      [] m \in {4, 6, 9, 11} -> 30
      [] OTHER -> 31

\* d + pd.Timedelta(days=1) on a date
next_day(d) ==
    LET y == dt_year(d)
        m == dt_month(d)
    IN  IF dt_day(d) < days_in_month(y, m) THEN d + 1
        ELSE IF m < 12 THEN y * 10000 + (m + 1) * 100 + 1
        ELSE (y + 1) * 10000 + 101

RECURSIVE date_range(_, _)
\* pd.date_range(first, last, freq='D')
date_range(first, last) ==
    IF first > last THEN <<>> ELSE << first >> \o date_range(next_day(first), last)

\* x * 1 on a float column
times_one(q) == IF q = NaN THEN NaN ELSE q * 1

RECURSIVE nansum(_)
\* Series.sum(): missing values are skipped
nansum(s) ==
    IF s = <<>> THEN 0
    ELSE (IF Head(s) = NaN THEN 0 ELSE Head(s)) + nansum(Tail(s))

RECURSIVE flatten(_)
flatten(ss) == IF ss = <<>> THEN <<>> ELSE Head(ss) \o flatten(Tail(ss))

column(df, c) == [i \in 1..Len(df) |-> df[i][c]]

\* DataFrame.copy(): a frame of its own, with the rows computed
copy(df) == df \o <<>>

\* a Series: an index of keys with one value per key
Series(rows) == [is_none |-> FALSE, rows |-> rows]

\* the keys of df.groupby(key): the values of the column, missing ones (na) left out
group_keys(df, key, na) == { df[i][key] : i \in 1..Len(df) } \ {na}

\* df.groupby(key)[col].sum() at one key
group_sum(df, key, k, col) == nansum(column(SelectSeq(df, LAMBDA r : r[key] = k), col))

\* the series keeps the days that have a transaction and nothing else
reindex_no_fill(df, key, na, col, labels, fill_value) ==
    LET keys == group_keys(df, key, na)
        kept == SelectSeq(labels, LAMBDA l : l \in keys)
    IN  [i \in 1..Len(kept) |-> [key |-> kept[i], value |-> group_sum(df, key, kept[i], col)]]

\* df.groupby(key)[col].sum().reindex(labels, fill_value=fill_value)
reindex(df, key, na, col, labels, fill_value) ==
    LET keys == group_keys(df, key, na)
    IN  [i \in 1..Len(labels) |->
            [key |-> labels[i],
             value |-> IF labels[i] \in keys THEN group_sum(df, key, labels[i], col)
                       ELSE fill_value]]

\* Series.min() and Series.max() of a column of dates that holds a date
date_min(df) ==
    LET keys == group_keys(df, "Date", NaN)
    IN  CHOOSE d \in keys : \A e \in keys : d <= e
date_max(df) ==
    LET keys == group_keys(df, "Date", NaN)
    IN  CHOOSE d \in keys : \A e \in keys : d >= e

\* df.groupby('Date')['Final Total'].sum().sort_index().asfreq('D', fill_value=0)
\* for a frame that holds a date
daily_series(df) ==
    copy(reindex(df, "Date", NaN, "FinalTotal", date_range(date_min(df), date_max(df)), 0))

\* df.groupby(['Invoice No.', 'Real Item Name'])['Qty.'].sum().unstack(fill_value=0)
\* with every cell mapped to 1 if x > 0 else 0; a row with a missing item name is
\* in no group
basket_matrix(df) ==
    LET grouped == SelectSeq(df, LAMBDA r : notna(r.RealItemName))
        index == { grouped[i].InvoiceNo : i \in 1..Len(grouped) }
        columns == { grouped[i].RealItemName : i \in 1..Len(grouped) }
        qty(inv, name) ==
            nansum(column(SelectSeq(grouped,
                       LAMBDA r : r.InvoiceNo = inv /\ r.RealItemName = name), "Qty"))
    IN  [is_none |-> FALSE, index |-> index, columns |-> columns,
         cell |-> [p \in index \X columns |-> IF qty(p[1], p[2]) > 0 THEN 1 ELSE 0]]

-----------------------------------------------------------------------------
(* Inputs *)

MaxRows == 3

ItemNames == {"A", "B", NULL}
ComboNames == {"A", NULL}

\* The cells of a SalesData line other than Status and Item Name.  The sheet has
\* more columns (Timestamp among them), which the pipeline carries along like
\* Invoice No.; the cells of a column that the sheet does not have are not read.
Lines ==
    { [InvoiceNo |-> 1, Price |-> "1", Qty |-> "2", SubTotal |-> "2", Discount |-> "",
       Tax |-> "1", FinalTotal |-> "3", Outlet |-> "Andheri", Area |-> "Swiggy",
       OnlineOffline |-> "Offline", Date |-> "2025-04-01"],
      [InvoiceNo |-> 2, Price |-> "n/a", Qty |-> "abc", SubTotal |-> "1",
       Discount |-> "1", Tax |-> "-", FinalTotal |-> "1", Outlet |-> NULL,
       Area |-> "Counter", OnlineOffline |-> "Online", Date |-> "not a date"],
      [InvoiceNo |-> 1, Price |-> "3", Qty |-> "1", SubTotal |-> "three",
       Discount |-> "2", Tax |-> "1", FinalTotal |-> NULL, Outlet |-> "Bandra",
       Area |-> NULL, OnlineOffline |-> NULL, Date |-> "2025-05-17"] }

\* the columns of SalesData that the dashboard can do without
OptionalCols == {"Outlet", "OnlineOffline"}

SalesRow(status, item, l) == [Status |-> status, ItemName |-> item] @@ l

\* rows the Status filter removes are represented by one row per status
SalesRows ==
    { SalesRow("Success", n, l) : n \in ItemNames, l \in Lines }
    \cup { SalesRow(s, "A", CHOOSE l \in Lines : l.InvoiceNo = 2) : s \in {"Failed", NULL} }

NameRefValues ==
    { [RealName |-> "X", Parent |-> "Food", SubCategory |-> "Snack"],
      [RealName |-> "X", Parent |-> "Drink", SubCategory |-> NULL],
      [RealName |-> NULL, Parent |-> NULL, SubCategory |-> "Tea"] }

NameRefRows == { [Item |-> n] @@ v : n \in ItemNames, v \in NameRefValues }

ComboRefValues ==
    { [RealItemName |-> "X", Category |-> "Beverage", SubCategory |-> "Hot"],
      [RealItemName |-> "Y", Category |-> NULL, SubCategory |-> NULL],
      [RealItemName |-> NULL, Category |-> "Beverage", SubCategory |-> NULL] }

ComboRefRows == { [ItemName |-> n] @@ v : n \in ComboNames, v \in ComboRefValues }

-----------------------------------------------------------------------------
(* Steps shared by load_data and sales_analysis.py *)

\* pd.read_excel / pd.DataFrame(records): rows get a RangeIndex, and a row has the
\* columns of the sheet
read_frame(sheet, absent) ==
    [i \in 1..Len(sheet) |->
        [idx |-> i - 1] @@ [c \in (DOMAIN sheet[i]) \ absent |-> sheet[i][c]]]

\* a filter that only removes the rows marked Failed
status_filter_not_failed(df) == SelectSeq(df, LAMBDA r : r.Status # "Failed")

status_filter(df) == SelectSeq(df, LAMBDA r : pd_eq(r.Status, "Success"))

sales_channel(area) == IF pd_eq(area, "Swiggy") THEN "Delivery" ELSE "In-Shop"

numeric_cols == {"Price", "Qty", "SubTotal", "Discount", "Tax", "FinalTotal"}

\* the calendar features made from Date
calendar_cols == {"Year", "Month", "Week", "DayOfWeek"}

\* type coercion and calendar features of one row; the other columns are kept
clean_row(r) ==
    LET date == to_datetime(r.Date)
    IN  [Price |-> to_numeric(r.Price), Qty |-> to_numeric(r.Qty),
         SubTotal |-> to_numeric(r.SubTotal), Discount |-> to_numeric(r.Discount),
         Tax |-> to_numeric(r.Tax), FinalTotal |-> to_numeric(r.FinalTotal),
         Date |-> date, Year |-> dt_year(date), Month |-> dt_month(date),
         Week |-> dt_week(date), DayOfWeek |-> dt_day_name(date)] @@ r

\* Status filter, type coercion and calendar features
clean_sales(df) ==
    LET kept == status_filter(df)
    IN  copy([i \in 1..Len(kept) |-> clean_row(kept[i])])

\* dashboard.py:137-142: the explicit channel column when the sheet has it, else
\* the channel derived from Area
ld_sales_channel(df) ==
    [i \in 1..Len(df) |->
        LET r == df[i]
        IN  [SalesChannel |-> IF "OnlineOffline" \in DOMAIN r THEN r.OnlineOffline
                              ELSE sales_channel(r.Area)] @@ r]

\* sales_analysis.py:83-85: the channel is always derived from Area
sa_sales_channel(df) ==
    [i \in 1..Len(df) |->
        LET r == df[i]
        IN  [SalesChannel |-> sales_channel(r.Area)] @@ r]

\* the Outlet column is created when the sheet has none, its cells are not filled
fill_outlet_create_only(df) ==
    [i \in 1..Len(df) |->
        LET r == df[i]
        IN  [Outlet |-> IF "Outlet" \in DOMAIN r THEN r.Outlet ELSE Unknown] @@ r]

\* dashboard.py:153-155: the Outlet column is created when the sheet has none, and
\* its missing cells are filled
fill_outlet(df) ==
    [i \in 1..Len(df) |->
        LET r == df[i]
        IN  [Outlet |-> IF "Outlet" \in DOMAIN r THEN fillna(r.Outlet, Unknown)
                        ELSE Unknown] @@ r]

rename_name_ref(df) ==
    [i \in 1..Len(df) |->
        [ItemName |-> df[i].Item, RealItemName |-> df[i].RealName,
         ParentCategory |-> df[i].Parent, SubCategory |-> df[i].SubCategory]]

\* the reference used as it is, duplicates included
drop_duplicates_keep_all(df, key) == df

\* keep='last': the last row of every key is kept
drop_duplicates_keep_last(df, key) ==
    LET keep(i) == \A j \in (i + 1)..Len(df) : ~key_eq(df[j][key], df[i][key])
        F[i \in 0..Len(df)] ==
            IF i = 0 THEN <<>>
            ELSE IF keep(i) THEN Append(F[i - 1], df[i]) ELSE F[i - 1]
    IN  F[Len(df)]

\* DataFrame.drop_duplicates(subset=[key]): the first row of every key is kept
drop_duplicates(df, key) ==
    LET keep(i) == \A j \in 1..(i - 1) : ~key_eq(df[j][key], df[i][key])
        F[i \in 0..Len(df)] ==
            IF i = 0 THEN <<>>
            ELSE IF keep(i) THEN Append(F[i - 1], df[i]) ELSE F[i - 1]
    IN  F[Len(df)]

name_ref_clean(name_ref) == drop_duplicates(copy(rename_name_ref(name_ref)), "ItemName")

NoMatch == [RealItemName |-> NULL, ParentCategory |-> NULL, SubCategory |-> NULL]

\* how='inner': a left row without a match is dropped
merge_inner(left, right, key, cols) ==
    LET project(m) == [c \in cols |-> m[c]]
        joined(r) ==
            LET matches == SelectSeq(right, LAMBDA m : key_eq(m[key], r[key]))
            IN  [k \in 1..Len(matches) |-> project(matches[k]) @@ r]
    IN  flatten(copy([i \in 1..Len(left) |-> joined(left[i])]))

\* left.merge(right, on=key, how='left'): one output row per matching right row, in
\* the order of left; a left row without a match is kept with missing right columns
merge_left(left, right, key, cols) ==
    LET project(m) == [c \in cols |-> m[c]]
        joined(r) ==
            LET matches == SelectSeq(right, LAMBDA m : key_eq(m[key], r[key]))
            IN  IF matches = <<>> THEN << [c \in cols |-> NoMatch[c]] @@ r >>
                ELSE [k \in 1..Len(matches) |-> project(matches[k]) @@ r]
    IN  flatten(copy([i \in 1..Len(left) |-> joined(left[i])]))

CategoryCols == {"RealItemName", "ParentCategory", "SubCategory"}

\* the canonical name of an unmapped item filled like its categories
fill_reference_miss_unknown_name(df) ==
    [i \in 1..Len(df) |->
        [df[i] EXCEPT !.RealItemName = fillna(@, Unknown),
                      !.ParentCategory = fillna(@, Unknown),
                      !.SubCategory = fillna(@, Unknown)]]

\* the three fillna calls after the merge on Item Name
fill_reference_miss(df) ==
    [i \in 1..Len(df) |->
        [df[i] EXCEPT !.RealItemName = fillna(@, df[i].ItemName),
                      !.ParentCategory = fillna(@, Unknown),
                      !.SubCategory = fillna(@, Unknown)]]

revenue_analysis(sales, ref) ==
    copy(fill_reference_miss(merge_left(sales, ref, "ItemName", CategoryCols)))

combo_items(combo_ref) == { combo_ref[i].ItemName : i \in 1..Len(combo_ref) }

\* Series.isin(combo_items)
isin_combo(r, combo_ref) == \E n \in combo_items(combo_ref) : key_eq(r.ItemName, n)

\* every sale is joined as a standalone item, the combos too
non_combo_all(sales, combo_ref) == sales

non_combo(sales, combo_ref) == SelectSeq(sales, LAMBDA r : ~isin_combo(r, combo_ref))
combo(sales, combo_ref) == SelectSeq(sales, LAMBDA r : isin_combo(r, combo_ref))

\* only the first component row of the combo
components_first_only(combo_ref, combo_name) ==
    LET all == SelectSeq(combo_ref, LAMBDA c : pd_eq(c.ItemName, combo_name))
    IN  IF all = <<>> THEN <<>> ELSE << all[1] >>

\* df_combo_ref_clean[df_combo_ref_clean['Item Name'] == combo_name]
components(combo_ref, combo_name) ==
    SelectSeq(combo_ref, LAMBDA c : pd_eq(c.ItemName, combo_name))

-----------------------------------------------------------------------------
(* dashboard.py: load_data *)

\* lines 118-155 of load_data
ld_df_sales(sales, absent) ==
    copy(fill_outlet(ld_sales_channel(clean_sales(read_frame(sales, absent)))))

\* the Final Total of the combo sale is shared out between two components
ld_new_row_shared(row, component, ref) ==
    LET matching_name ==
            SelectSeq(ref, LAMBDA m : pd_eq(m.RealItemName, component.RealItemName))
        parent == IF Len(matching_name) > 0 THEN matching_name[1].ParentCategory
                  ELSE component.Category
        sub == IF Len(matching_name) > 0 THEN matching_name[1].SubCategory
               ELSE IF notna(component.SubCategory) THEN component.SubCategory
               ELSE component.RealItemName
    IN  [RealItemName |-> component.RealItemName, ParentCategory |-> parent,
         SubCategory |-> sub]
        @@ [row EXCEPT !.Qty = times_one(row.Qty),
                       !.FinalTotal = IF @ = NaN THEN NaN ELSE @ \div 2]

\* the body of the inner loop: the row emitted for one component of one combo sale
ld_new_row(row, component, ref) ==
    LET matching_name ==
            SelectSeq(ref, LAMBDA m : pd_eq(m.RealItemName, component.RealItemName))
        parent == IF Len(matching_name) > 0 THEN matching_name[1].ParentCategory
                  ELSE component.Category
        sub == IF Len(matching_name) > 0 THEN matching_name[1].SubCategory
               ELSE IF notna(component.SubCategory) THEN component.SubCategory
               ELSE component.RealItemName
    IN  [RealItemName |-> component.RealItemName, ParentCategory |-> parent,
         SubCategory |-> sub]
        @@ [row EXCEPT !.Qty = times_one(row.Qty)]

\* the two nested loops over df_combo and over the components of each combo
ld_combo_exploded_list(sales, ref, combo_ref) ==
    LET df_combo == combo(sales, combo_ref)
        explode(row) ==
            LET comps == components(combo_ref, row.ItemName)
            IN  [k \in 1..Len(comps) |-> ld_new_row(row, comps[k], ref)]
    IN  flatten(copy([i \in 1..Len(df_combo) |-> explode(df_combo[i])]))

\* the final fillna('Unknown') of Sub Category; the values are strings already, so
\* astype(str) leaves them as they are
ld_clean_sub_category(df) ==
    copy([i \in 1..Len(df) |-> [df[i] EXCEPT !.SubCategory = fillna(@, Unknown)]])

\* the non-combo rows merged but not filled
ld_quantity_analysis_unfilled(sales, ref, combo_ref) ==
    LET df_non_combo_merged ==
            merge_left(non_combo(sales, combo_ref), ref, "ItemName", CategoryCols)
        combo_exploded_list == ld_combo_exploded_list(sales, ref, combo_ref)
    IN  ld_clean_sub_category(
            IF combo_exploded_list # <<>>
            THEN df_non_combo_merged \o combo_exploded_list
            ELSE df_non_combo_merged)

\* lines 167-210: the Quantity View of load_data
ld_quantity_analysis(sales, ref, combo_ref) ==
    LET df_non_combo_merged == revenue_analysis(non_combo(sales, combo_ref), ref)
        combo_exploded_list == ld_combo_exploded_list(sales, ref, combo_ref)
    IN  ld_clean_sub_category(
            IF combo_exploded_list # <<>>
            THEN df_non_combo_merged \o combo_exploded_list
            ELSE df_non_combo_merged)

\* the tuple load_data returns at line 212
ld_result(sales, absent, name_ref, combo_ref) ==
    LET df_sales == ld_df_sales(sales, absent)
        ref == name_ref_clean(name_ref)
    IN  << DataFrame(revenue_analysis(df_sales, ref)),
           DataFrame(ld_quantity_analysis(df_sales, ref, combo_ref)) >>

\* the except branch gives up the Revenue View only
ld_failure_partial == << NoneValue, DataFrame(<<>>) >>

\* the tuple returned by the except branch at line 216
ld_failure == << NoneValue, NoneValue >>

\* what load_data returns besides the two views: nothing, the result is a pair
ld_diagnostics == {}

ErrLoading == "Error loading data"
ErrFailed == "Failed to load data. Please check data.xlsx file or Google Sheets connection."

\* load_from_google_sheets() and load_from_excel(): TRUE when the three frames are
\* returned, FALSE when the except branch returns (None, None, None, str(e)).
\* The spreadsheet and data.xlsx hold the same three sheets.
load_from_google_sheets == gs_readable
load_from_excel == src_readable

\* the spreadsheet is read, and data.xlsx after it whatever the outcome
ld_attempts_both_sources ==
    IF gs_enabled THEN << "gsheets", "excel" >> ELSE << "excel" >>

\* lines 100-113: the sources load_data tries to read, in order
ld_attempts ==
    IF gs_enabled
    THEN IF load_from_google_sheets THEN << "gsheets" >> ELSE << "gsheets", "excel" >>
    ELSE << "excel" >>

\* line 115: df_sales is not None
ld_loaded ==
    IF gs_enabled /\ load_from_google_sheets THEN TRUE ELSE load_from_excel

\* the body of load_data ends in its except branch
ld_raised == ~ld_loaded \/ ~src_has_status

\* what the body of load_data returns for the sources as they are
ld_returned ==
    IF ld_raised THEN ld_failure
    ELSE ld_result(src_sales, src_absent, src_name_ref, src_combo_ref)

\* the freshness window of @st.cache_data(ttl=300), in seconds
TTL == 300

\* The cache of load_data has one entry: use_google_sheets, the only argument,
\* does not change while the application runs.  The value of the entry is the
\* pair the body returned last; df_revenue and df_quantity, which nothing but
\* line 243 assigns, keep that pair between two runs of the script, so the
\* entry records only when it was made and which st.error the body showed.
CacheEmpty == [filled |-> FALSE, at |-> 0, shown |-> {}]
\* only a call that showed no error is kept
cache_entry_success_only(t, msgs) ==
    IF msgs # {} THEN [filled |-> FALSE, at |-> 0, shown |-> {}]
    ELSE [filled |-> TRUE, at |-> t, shown |-> msgs]

cache_entry(t, msgs) == [filled |-> TRUE, at |-> t, shown |-> msgs]

\* an entry is served until it is older than ttl
cache_fresh_at_ttl == cache.filled /\ now - cache.at <= TTL

\* an entry is served as long as it is younger than ttl
cache_fresh == cache.filled /\ now - cache.at < TTL

\* One call of load_data(use_google_sheets=use_gsheets) at line 243.  A fresh
\* cache entry is returned, with the st.error of the cached call shown again,
\* and the body does not run: no source is read.  Otherwise the body runs: no
\* readable source
\* (line 116) and a missing Status column (KeyError at line 119) both end in the
\* except branch; what the body returns is stored in the cache.
load_data ==
    /\ pc = "start"
    /\ IF cache_fresh
       THEN /\ st_errors' = st_errors \cup cache.shown
            /\ load_log' = <<>>
            /\ UNCHANGED <<df_revenue, df_quantity, cache, loads>>
       ELSE LET raised == ld_raised
                result == ld_returned
                shown == IF raised THEN {ErrLoading} ELSE {}
            IN  /\ df_revenue' = result[1]
                /\ df_quantity' = result[2]
                /\ st_errors' = st_errors \cup shown
                /\ cache' = cache_entry(now, shown)
                /\ loads' = loads + 1
                /\ load_log' = ld_attempts
    /\ pc' = "loaded"
    /\ UNCHANGED <<src_vars, now, trigger, sa_vars, today, rep_vars>>

\* dashboard.py:245-247, the result is the failure pair: st.error and st.stop()
dashboard_stop ==
    /\ pc = "loaded"
    /\ df_revenue.is_none \/ df_quantity.is_none
    /\ st_errors' = st_errors \cup {ErrFailed}
    /\ pc' = "stopped"
    /\ UNCHANGED <<src_vars, now, cache, trigger, loads, load_log, df_revenue,
                   df_quantity, sa_vars, today, rep_vars>>

\* dashboard.py:249 onwards: the filters, metrics and tabs run on the two views
dashboard_report ==
    /\ pc = "loaded"
    /\ ~(df_revenue.is_none \/ df_quantity.is_none)
    /\ pc' = "report"
    /\ UNCHANGED <<src_vars, now, cache, trigger, loads, load_log, df_revenue,
                   df_quantity, st_errors, sa_vars, today, rep_vars>>

MaxLoads == 3
MaxClock == 600

\* the user changes a widget of the page: Streamlit runs the script again from
\* the top, with an empty page and the cache as it is
rerun ==
    /\ pc \in {"report", "stopped"}
    /\ loads < MaxLoads
    /\ pc' = "start"
    /\ trigger' = "widget"
    /\ st_errors' = {}
    /\ UNCHANGED <<src_vars, now, cache, loads, load_log, df_revenue, df_quantity,
                   sa_vars, today, rep_vars>>

\* the entries stay, the button does nothing
refresh_data_keep_cache ==
    /\ pc \in {"report", "stopped"}
    /\ loads < MaxLoads
    /\ pc' = "start"
    /\ trigger' = "refresh"
    /\ st_errors' = {}
    /\ UNCHANGED <<src_vars, now, cache, loads, load_log, df_revenue, df_quantity,
                   sa_vars, today, rep_vars>>

\* dashboard.py:222-224: the Refresh Data button is pressed; the run it starts
\* clears the cache at line 223 and starts the script again at line 224
refresh_data ==
    /\ pc \in {"report", "stopped"}
    /\ loads < MaxLoads
    /\ cache' = CacheEmpty
    /\ pc' = "start"
    /\ trigger' = "refresh"
    /\ st_errors' = {}
    /\ UNCHANGED <<src_vars, now, loads, load_log, df_revenue, df_quantity, sa_vars,
                   today, rep_vars>>

\* time passes between two steps of the script
TickSteps == {149, 150}

tick ==
    /\ \E d \in TickSteps :
         /\ now + d <= MaxClock
         /\ now' = now + d
    /\ UNCHANGED <<src_vars, cache, trigger, loads, load_log, pc, df_revenue,
                   df_quantity, st_errors, sa_vars, today, rep_vars>>

-----------------------------------------------------------------------------
(* dashboard.py: the reporting code.  The script goes through it from top to  *)
(* bottom in every run; the tabs that are not modelled write none of the      *)
(* variables.                                                                 *)

\* lines 253-256, 270-272 and 275: the options of the four sidebar widgets
outlet_options(df) == { df[i].Outlet : i \in 1..Len(df) } \ {NULL, "", "nan", "None"}
channel_options(df) ==
    { df[i].SalesChannel : i \in 1..Len(df) } \ {NULL, "", "nan", "None"}
category_options(df) == { df[i].ParentCategory : i \in 1..Len(df) }

\* line 497: the options of the Parent Category widget of the timeline
timeline_parent_options(df) ==
    { df[i].ParentCategory : i \in 1..Len(df) } \ {NULL, Unknown, ""}

\* the widgets as Streamlit shows them first: no filter, the whole date range
AllSelected ==
    [outlet |-> "All", dates |-> "default", channel |-> "All", category |-> "All",
     timeline_parent |-> "All"]

\* What the user has chosen in the widgets when a run reads them: nothing, or
\* one widget moved away from what it shows first.  The date widget holds the
\* whole range (min_date, max_date), the range (min_date, min_date), or a single
\* date while the user is picking the end of a range.
Selections(df) ==
    {AllSelected}
    \cup { [AllSelected EXCEPT !.outlet = o] : o \in outlet_options(df) }
    \cup { [AllSelected EXCEPT !.dates = d] : d \in {"first", "single"} }
    \cup { [AllSelected EXCEPT !.channel = c] : c \in channel_options(df) }
    \cup { [AllSelected EXCEPT !.category = c] : c \in category_options(df) }
    \cup { [AllSelected EXCEPT !.timeline_parent = c] : c \in timeline_parent_options(df) }

\* lines 286-290: a comparison with a missing date is False
date_filter(df, lo, hi) ==
    SelectSeq(df, LAMBDA r : r.Date # NaN /\ r.Date >= lo /\ r.Date <= hi)

\* lines 280-296, for a Revenue View that holds a date
apply_filters(df, sel) ==
    LET by_outlet == IF sel.outlet # "All"
                     THEN SelectSeq(df, LAMBDA r : pd_eq(r.Outlet, sel.outlet))
                     ELSE df
        min_date == date_min(df)
        max_date == date_max(df)
        by_date == CASE sel.dates = "default" -> date_filter(by_outlet, min_date, max_date)
                     [] sel.dates = "first" -> date_filter(by_outlet, min_date, min_date)
                     [] OTHER -> by_outlet
        by_channel == IF sel.channel # "All"
                      THEN SelectSeq(by_date, LAMBDA r : pd_eq(r.SalesChannel, sel.channel))
                      ELSE by_date
    IN  IF sel.category # "All"
        THEN SelectSeq(by_channel, LAMBDA r : pd_eq(r.ParentCategory, sel.category))
        ELSE by_channel

\* Lines 249-306.  Without a date in the Revenue View, Date.min() is NaT and
\* NaT.date() raises at line 260, outside every try.  An empty selection ends the
\* run at line 305 (st.stop()).
dashboard_filters ==
    /\ pc = "report"
    /\ IF group_keys(df_revenue.rows, "Date", NaN) = {}
       THEN /\ pc' = "crashed"
            /\ UNCHANGED <<selected, df_filtered>>
       ELSE \E sel \in Selections(df_revenue.rows) :
              LET filtered == apply_filters(df_revenue.rows, sel)
              IN  /\ selected' = sel
                  /\ df_filtered' = DataFrame(filtered)
                  /\ pc' = IF Len(filtered) = 0 THEN "empty" ELSE "filtered"
    /\ UNCHANGED <<src_vars, now, cache, trigger, loads, load_log, df_revenue,
                   df_quantity, st_errors, sa_vars, today, metrics,
                   week_of_month_revenue, basket_binary, daily_revenue, weeks_forecast,
                   weeks_targets>>

\* Series.nunique(): missing values are not counted
nunique(df, col, na) == Cardinality(group_keys(df, col, na))

\* f"{(part / whole * 100):.1f}", in tenths of a percent; 0 / 0 is nan
percent_of(part, whole) ==
    IF whole = 0 THEN NaN ELSE (2000 * part + whole) \div (2 * whole)

\* lines 313-343: the summary metrics row
dashboard_metrics ==
    /\ pc = "filtered"
    /\ LET total_revenue == nansum(column(df_filtered.rows, "FinalTotal"))
           total_orders == nunique(df_filtered.rows, "InvoiceNo", NaN)
       IN  metrics' =
               [is_none |-> FALSE,
                total_revenue |-> total_revenue,
                total_orders |-> total_orders,
                total_items |-> nansum(column(df_filtered.rows, "Qty")),
                revenue_percent |->
                    percent_of(total_revenue, nansum(column(df_revenue.rows, "FinalTotal"))),
                orders_percent |->
                    percent_of(total_orders, nunique(df_revenue.rows, "InvoiceNo", NaN))]
    /\ pc' = "metrics"
    /\ UNCHANGED <<src_vars, now, cache, trigger, loads, load_log, df_revenue,
                   df_quantity, st_errors, sa_vars, today, selected, df_filtered,
                   week_of_month_revenue, basket_binary, daily_revenue, weeks_forecast,
                   weeks_targets>>

\* f"Week {int(x)}"
week_label(x) ==
    CASE x = 1 -> "Week 1"
      [] x = 2 -> "Week 2"
      [] x = 3 -> "Week 3"
      [] x = 4 -> "Week 4"
      [] x = 5 -> "Week 5"

\* lines 574-579: the two apply calls on Date
week_of_month(d) ==
    IF d = NaN THEN NULL
    ELSE LET x == (dt_day(d) - 1) \div 7 + 1
         IN  IF x <= 5 THEN week_label(x) ELSE "Week 4+"

\* line 602: the buckets of the chart
WeekBuckets == << "Week 1", "Week 2", "Week 3", "Week 4", "Week 4+" >>

\* lines 520-526, with the Sub Category and Real Item Name widgets at 'All'
timeline(df, sel) ==
    IF sel.timeline_parent # "All"
    THEN SelectSeq(df, LAMBDA r : pd_eq(r.ParentCategory, sel.timeline_parent))
    ELSE df

\* tab3, lines 489-645: the timeline and its revenue by week of month
tab3_time_analysis ==
    /\ pc = "metrics"
    /\ LET shown == timeline(df_filtered.rows, selected)
           df_timeline == copy([i \in 1..Len(shown) |->
                                   [Week_of_Month |-> week_of_month(shown[i].Date)]
                                       @@ shown[i]])
       IN  week_of_month_revenue' =
               Series(copy(reindex(df_timeline, "Week_of_Month", NULL, "FinalTotal",
                                   WeekBuckets, 0)))
    /\ pc' = "tab3"
    /\ UNCHANGED <<src_vars, now, cache, trigger, loads, load_log, df_revenue,
                   df_quantity, st_errors, sa_vars, today, selected, df_filtered, metrics,
                   basket_binary, daily_revenue, weeks_forecast, weeks_targets>>

\* tab6, lines 1198-1274: the basket matrix of the filtered Revenue View
tab6_basket_analysis ==
    /\ pc = "tab3"
    /\ basket_binary' = basket_matrix(df_filtered.rows)
    /\ pc' = "tab6"
    /\ UNCHANGED <<src_vars, now, cache, trigger, loads, load_log, df_revenue,
                   df_quantity, st_errors, sa_vars, today, selected, df_filtered, metrics,
                   week_of_month_revenue, daily_revenue, weeks_forecast, weeks_targets>>

\* tab7, lines 1277-1374: the daily revenue of the whole Revenue View, which
\* holds a date when the script gets here
tab7_revenue_forecast ==
    /\ pc = "tab6"
    /\ daily_revenue' = Series(daily_series(df_revenue.rows))
    /\ pc' = "tab7"
    /\ UNCHANGED <<src_vars, now, cache, trigger, loads, load_log, df_revenue,
                   df_quantity, st_errors, sa_vars, today, selected, df_filtered, metrics,
                   week_of_month_revenue, basket_binary, weeks_forecast, weeks_targets>>

\* Timestamp.weekday(): Monday is 0; day 0 of the model is a Monday
weekday(t) == t % 7

\* tab8, lines 1636-1644
forecast_weeks(t) ==
    LET until == (7 - weekday(t)) % 7
        days_until_monday == IF until = 0 THEN 7 ELSE until
        week1_start == t + days_until_monday
        week1_end == week1_start + 6
        week2_start == week1_end + 1
        week2_end == week2_start + 6
    IN  [is_none |-> FALSE, today |-> t, week1_start |-> week1_start,
         week1_end |-> week1_end, week2_start |-> week2_start, week2_end |-> week2_end]

\* a Monday counts as the start of its own week
targets_weeks_from_today(t) ==
    LET days_until_monday == (7 - weekday(t)) % 7
        week1_start == t + days_until_monday
        week1_end == week1_start + 6
        week2_start == week1_end + 1
        week2_end == week2_start + 6
    IN  [is_none |-> FALSE, today |-> t, week1_start |-> week1_start,
         week1_end |-> week1_end, week2_start |-> week2_start, week2_end |-> week2_end]

\* tab9, lines 1888-1896
targets_weeks(t) ==
    LET until == (7 - weekday(t)) % 7
        days_until_monday == IF until = 0 THEN 7 ELSE until
        week1_start == t + days_until_monday
        week1_end == week1_start + 6
        week2_start == week1_end + 1
        week2_end == week2_start + 6
    IN  [is_none |-> FALSE, today |-> t, week1_start |-> week1_start,
         week1_end |-> week1_end, week2_start |-> week2_start, week2_end |-> week2_end]

\* tab8, lines 1377-1840.  The forecast is made in the run that the button
\* "Submit & Generate Forecast" started; without data to forecast from the run
\* ends at line 1548 (st.stop()).  The tab's own widgets are left as they are
\* shown first.
tab8_unit_forecast ==
    /\ pc = "tab7"
    /\ IF trigger = "forecast"
       THEN IF Len(df_quantity.rows) = 0
            THEN /\ pc' = "empty"
                 /\ UNCHANGED weeks_forecast
            ELSE /\ weeks_forecast' = forecast_weeks(today)
                 /\ pc' = "tab8"
       ELSE /\ pc' = "tab8"
            /\ UNCHANGED weeks_forecast
    /\ UNCHANGED <<src_vars, now, cache, trigger, loads, load_log, df_revenue,
                   df_quantity, st_errors, sa_vars, today, selected, df_filtered, metrics,
                   week_of_month_revenue, basket_binary, daily_revenue, weeks_targets>>

\* tab9, lines 1843-2088.  The targets are made in the run that the button
\* "Generate Targets Table" started.
tab9_send_targets ==
    /\ pc = "tab8"
    /\ IF trigger = "targets"
       THEN weeks_targets' = targets_weeks(today)
       ELSE UNCHANGED weeks_targets
    /\ pc' = "done"
    /\ UNCHANGED <<src_vars, now, cache, trigger, loads, load_log, df_revenue,
                   df_quantity, st_errors, sa_vars, today, selected, df_filtered, metrics,
                   week_of_month_revenue, basket_binary, daily_revenue, weeks_forecast>>

\* the positions at which a run of the dashboard script has ended
RunEnded == {"stopped", "crashed", "empty", "done"}

\* the button of tab8 is pressed: Streamlit runs the script again
press_forecast ==
    /\ pc \in RunEnded
    /\ pc' = "start"
    /\ trigger' = "forecast"
    /\ st_errors' = {}
    /\ UNCHANGED <<src_vars, now, cache, loads, load_log, df_revenue, df_quantity,
                   sa_vars, today, rep_vars>>

\* the button of tab9 is pressed
press_targets ==
    /\ pc \in RunEnded
    /\ pc' = "start"
    /\ trigger' = "targets"
    /\ st_errors' = {}
    /\ UNCHANGED <<src_vars, now, cache, loads, load_log, df_revenue, df_quantity,
                   sa_vars, today, rep_vars>>

MaxDay == 7

\* midnight passes
midnight ==
    /\ today < MaxDay
    /\ today' = today + 1
    /\ UNCHANGED <<src_vars, now, cache, trigger, loads, load_log, pc, df_revenue,
                   df_quantity, st_errors, sa_vars, rep_vars>>

-----------------------------------------------------------------------------
(* sales_analysis.py, part 1 *)

\* lines 46-85
sa_df_sales(sales, absent) ==
    copy(sa_sales_channel(clean_sales(read_frame(sales, absent))))

\* lines 154-166: the copies of the combo rows, one per component
sa_combo_exploded_list(sales, combo_ref) ==
    LET df_combo == combo(sales, combo_ref)
        explode(row) ==
            LET comps == components(combo_ref, row.ItemName)
            IN  [k \in 1..Len(comps) |->
                    [RealItemName |-> comps[k].RealItemName,
                     ComponentQty |-> times_one(row.Qty)] @@ row]
    IN  flatten(copy([i \in 1..Len(df_combo) |-> explode(df_combo[i])]))

\* lines 168-190: Qty. taken from Component Qty, categories merged in by Real Item
\* Name, missing categories filled, Component Qty dropped
sa_combo_exploded(sales, ref, combo_ref) ==
    LET listed == sa_combo_exploded_list(sales, combo_ref)
        with_qty == copy([i \in 1..Len(listed) |->
                             [listed[i] EXCEPT !.Qty = listed[i].ComponentQty]])
        merged == merge_left(with_qty, drop_duplicates(ref, "RealItemName"),
                             "RealItemName", {"ParentCategory", "SubCategory"})
        filled == copy([i \in 1..Len(merged) |->
                           [merged[i] EXCEPT !.ParentCategory = fillna(@, Unknown),
                                             !.SubCategory = fillna(@, Unknown)]])
    IN  [i \in 1..Len(filled) |->
            [c \in (DOMAIN filled[i]) \ {"ComponentQty"} |-> filled[i][c]]]

sa_quantity_analysis(sales, ref, combo_ref) ==
    revenue_analysis(non_combo(sales, combo_ref), ref)
        \o sa_combo_exploded(sales, ref, combo_ref)

\* The script from line 46 to line 201.  An unreadable data.xlsx makes line 46
\* raise, a missing Status column makes line 58 raise, and nothing catches either.
\* The script and the dashboard share nothing but the source, which neither of
\* them writes, so their steps commute: the script is run once the run of the
\* dashboard has ended.
sales_analysis ==
    /\ sa_pc = "start"
    /\ pc \in {"report"} \cup RunEnded
    /\ IF src_readable /\ src_has_status
       THEN LET df_sales == sa_df_sales(src_sales, src_absent)
                ref == name_ref_clean(src_name_ref)
            IN  /\ df_revenue_analysis' = DataFrame(revenue_analysis(df_sales, ref))
                /\ df_quantity_analysis' =
                       DataFrame(sa_quantity_analysis(df_sales, ref, src_combo_ref))
                /\ sa_pc' = "part2"
       ELSE /\ sa_pc' = "crashed"
            /\ UNCHANGED <<df_revenue_analysis, df_quantity_analysis>>
    /\ UNCHANGED <<src_vars, now, cache, trigger, loads, load_log, pc, df_revenue,
                   df_quantity, st_errors, sa_basket_binary, sa_daily_revenue, today,
                   rep_vars>>

\* part 4, lines 445-457: the basket matrix of the Revenue View
sa_basket_analysis ==
    /\ sa_pc = "part2"
    /\ pc \in RunEnded
    /\ sa_basket_binary' = basket_matrix(df_revenue_analysis.rows)
    /\ sa_pc' = "part4"
    /\ UNCHANGED <<src_vars, now, cache, trigger, loads, load_log, pc, df_revenue,
                   df_quantity, st_errors, df_revenue_analysis, df_quantity_analysis,
                   sa_daily_revenue, today, rep_vars>>

\* part 5, lines 555-568: the daily revenue.  Without a date in the Revenue View
\* there is no first and no last day, asfreq has nothing to work on and the
\* strftime of line 568 raises on NaT: the script ends there.
sa_forecasting ==
    /\ sa_pc = "part4"
    /\ IF group_keys(df_revenue_analysis.rows, "Date", NaN) = {}
       THEN /\ sa_pc' = "crashed5"
            /\ UNCHANGED sa_daily_revenue
       ELSE /\ sa_daily_revenue' = Series(daily_series(df_revenue_analysis.rows))
            /\ sa_pc' = "part5"
    /\ UNCHANGED <<src_vars, now, cache, trigger, loads, load_log, pc, df_revenue,
                   df_quantity, st_errors, df_revenue_analysis, df_quantity_analysis,
                   sa_basket_binary, today, rep_vars>>

-----------------------------------------------------------------------------
(* Specification *)

\* both programs are about to start on the given day, at time 0 and with an
\* empty cache
StartedOn(day) ==
    /\ today = day
    /\ selected = AllSelected
    /\ df_filtered = NoneValue
    /\ metrics = NoneValue
    /\ week_of_month_revenue = NoneValue
    /\ basket_binary = NoneValue
    /\ daily_revenue = NoneValue
    /\ weeks_forecast = NoneValue
    /\ weeks_targets = NoneValue
    /\ sa_basket_binary = NoneValue
    /\ sa_daily_revenue = NoneValue
    /\ now = 0
    /\ cache = CacheEmpty
    /\ trigger = "open"
    /\ loads = 0
    /\ load_log = <<>>
    /\ pc = "start"
    /\ df_revenue = NoneValue
    /\ df_quantity = NoneValue
    /\ st_errors = {}
    /\ sa_pc = "start"
    /\ df_revenue_analysis = NoneValue
    /\ df_quantity_analysis = NoneValue

Started == StartedOn(0)

\* The three sheets hold MaxRows rows in all.  A SalesData sheet without a Status
\* column makes both programs raise before they look at the reference sheets, so
\* that case is taken with empty reference sheets only; a source that cannot be
\* read has no content.
Init ==
    /\ \E a \in 0..MaxRows : \E b \in 0..(MaxRows - a) : \E c \in 0..(MaxRows - a - b) :
         /\ src_sales \in [1..a -> SalesRows]
         /\ src_name_ref \in [1..b -> NameRefRows]
         /\ src_combo_ref \in [1..c -> ComboRefRows]
    /\ src_has_status \in BOOLEAN
    /\ ~src_has_status => (src_name_ref = <<>> /\ src_combo_ref = <<>>)
    /\ src_readable \in BOOLEAN
    /\ ~src_readable =>
         (src_sales = <<>> /\ src_name_ref = <<>> /\ src_combo_ref = <<>> /\ src_has_status)
    /\ src_absent = {"OnlineOffline"}
    /\ gs_enabled = FALSE
    /\ gs_readable = FALSE
    /\ Started

Next ==
    \/ load_data
    \/ dashboard_stop
    \/ dashboard_report
    \/ sales_analysis

Spec == Init /\ [][Next]_vars

\* The cleaning steps: SalesData holds up to MaxCleanRows rows and has or has not
\* the two optional columns; the references are few.
MaxCleanRows == 2

CleanNameRefs ==
    { <<>>,
      << [Item |-> "A", RealName |-> "X", Parent |-> "Food", SubCategory |-> "Snack"] >> }

CleanComboRefs ==
    { <<>>,
      << [ItemName |-> "A", RealItemName |-> "X", Category |-> "Beverage",
          SubCategory |-> "Hot"],
         [ItemName |-> "A", RealItemName |-> "Y", Category |-> NULL,
          SubCategory |-> NULL] >>,
      << [ItemName |-> NULL, RealItemName |-> "X", Category |-> "Beverage",
          SubCategory |-> "Hot"] >> }

InitClean ==
    /\ \E a \in 0..MaxCleanRows : src_sales \in [1..a -> SalesRows]
    /\ src_name_ref \in CleanNameRefs
    /\ src_combo_ref \in CleanComboRefs
    /\ src_absent \in SUBSET OptionalCols
    /\ src_readable = TRUE
    /\ src_has_status \in BOOLEAN
    /\ ~src_has_status => (src_name_ref = <<>> /\ src_combo_ref = <<>> /\ src_absent = {})
    /\ gs_enabled = FALSE
    /\ gs_readable = FALSE
    /\ Started

SpecClean == InitClean /\ [][Next]_vars

\* The choice of the source: Google Sheets is enabled or not, each source can be
\* read or not, and SalesData has one row at most.
InitLoad ==
    /\ src_sales \in {<<>>} \cup { << r >> : r \in SalesRows }
    /\ src_name_ref = <<>>
    /\ src_combo_ref \in CleanComboRefs
    /\ src_absent = {}
    /\ src_readable \in BOOLEAN
    /\ src_has_status \in BOOLEAN
    /\ gs_enabled \in BOOLEAN
    /\ gs_readable \in BOOLEAN
    /\ Started

SpecLoad == InitLoad /\ [][Next]_vars

\* The dashboard over time: the script runs again and again, the clock advances
\* and the source changes between the runs.
CacheSales ==
    { <<>>,
      << SalesRow("Success", "A", CHOOSE l \in Lines : l.InvoiceNo = 2) >>,
      << SalesRow("Success", "B", CHOOSE l \in Lines : l.InvoiceNo = 2) >> }

\* data.xlsx is edited, removed or put back
source_change ==
    /\ \/ /\ src_sales' \in CacheSales \ {src_sales}
          /\ UNCHANGED src_readable
       \/ /\ src_readable' = ~src_readable
          /\ UNCHANGED src_sales
    /\ UNCHANGED <<src_name_ref, src_combo_ref, src_has_status, src_absent, gs_enabled,
                   gs_readable, now, cache, trigger, loads, load_log, pc, df_revenue,
                   df_quantity, st_errors, sa_vars, today, rep_vars>>

InitCache ==
    /\ src_sales \in CacheSales
    /\ src_name_ref = <<>>
    /\ src_combo_ref = <<>>
    /\ src_absent = {}
    /\ src_readable \in BOOLEAN
    /\ src_has_status = TRUE
    /\ gs_enabled = FALSE
    /\ gs_readable = FALSE
    /\ Started

NextCache ==
    \/ load_data
    \/ dashboard_stop
    \/ dashboard_report
    \/ rerun
    \/ refresh_data
    \/ tick
    \/ source_change

SpecCache == InitCache /\ [][NextCache]_vars

\* The reporting code and parts 4 and 5 of the script: SalesData holds up to
\* MaxReportRows successful sales of two invoices, dated 1 April, 29 April and
\* 1 May 2025 or without a date; item A is in the item reference and item B,
\* sold on 29 April and without a date, is not; there are no combos.
MaxReportRows == 3

ReportLines ==
    { [InvoiceNo |-> 1, Price |-> "1", Qty |-> "2", SubTotal |-> "2", Discount |-> "",
       Tax |-> "1", FinalTotal |-> "3", Outlet |-> "Andheri", Area |-> "Swiggy",
       OnlineOffline |-> "Online", Date |-> "2025-04-29"],
      [InvoiceNo |-> 2, Price |-> "n/a", Qty |-> "abc", SubTotal |-> "1",
       Discount |-> "1", Tax |-> "-", FinalTotal |-> "1", Outlet |-> NULL,
       Area |-> "Counter", OnlineOffline |-> "Offline", Date |-> "not a date"],
      [InvoiceNo |-> 1, Price |-> "2", Qty |-> "1", SubTotal |-> "2", Discount |-> "",
       Tax |-> "", FinalTotal |-> "2", Outlet |-> "Bandra", Area |-> "Counter",
       OnlineOffline |-> "Offline", Date |-> "2025-05-01"],
      [InvoiceNo |-> 2, Price |-> "1", Qty |-> "3", SubTotal |-> "3", Discount |-> "2",
       Tax |-> "", FinalTotal |-> "1", Outlet |-> "Andheri", Area |-> "Swiggy",
       OnlineOffline |-> "Online", Date |-> "2025-04-01"] }

ReportRows ==
    { SalesRow("Success", "A", l) : l \in ReportLines }
    \cup { SalesRow("Success", "B", l) :
               l \in { m \in ReportLines : m.Date \in {"2025-04-29", "not a date"} } }

InitReport ==
    /\ \E a \in 0..MaxReportRows : src_sales \in [1..a -> ReportRows]
    /\ src_name_ref =
           << [Item |-> "A", RealName |-> "X", Parent |-> "Food", SubCategory |-> "Snack"] >>
    /\ src_combo_ref = <<>>
    /\ src_absent = {}
    /\ src_readable \in BOOLEAN
    /\ ~src_readable => src_sales = <<>>
    /\ src_has_status = TRUE
    /\ gs_enabled = FALSE
    /\ gs_readable = FALSE
    /\ Started

NextReport ==
    \/ load_data
    \/ dashboard_stop
    \/ dashboard_report
    \/ dashboard_filters
    \/ dashboard_metrics
    \/ tab3_time_analysis
    \/ tab6_basket_analysis
    \/ tab7_revenue_forecast
    \/ tab8_unit_forecast
    \/ tab9_send_targets
    \/ sales_analysis
    \/ sa_basket_analysis
    \/ sa_forecasting

SpecReport == InitReport /\ [][NextReport]_vars

\* The two forecast buttons over the days: the dashboard is opened on any day of
\* a week, the buttons are pressed again and again and midnight passes between
\* the runs and in the middle of them.
InitWeeks ==
    /\ src_sales \in { << r >> : r \in ReportRows }
    /\ src_name_ref = <<>>
    /\ src_combo_ref = <<>>
    /\ src_absent = {}
    /\ src_readable \in BOOLEAN
    /\ src_has_status = TRUE
    /\ gs_enabled = FALSE
    /\ gs_readable = FALSE
    /\ \E day \in 0..6 : StartedOn(day)

NextWeeks ==
    \/ load_data
    \/ dashboard_stop
    \/ dashboard_report
    \/ dashboard_filters
    \/ dashboard_metrics
    \/ tab3_time_analysis
    \/ tab6_basket_analysis
    \/ tab7_revenue_forecast
    \/ tab8_unit_forecast
    \/ tab9_send_targets
    \/ press_forecast
    \/ press_targets
    \/ midnight

SpecWeeks == InitWeeks /\ [][NextWeeks]_vars

-----------------------------------------------------------------------------
(* Properties.  They are stated on the source sheets and on the views the two *)
(* programs hold, not on the intermediate steps of the pipeline.              *)

\* the cleaned transaction set: the raw rows with Status == "Success", in order
Cleaned ==
    SelectSeq([i \in 1..Len(src_sales) |-> [idx |-> i - 1] @@ src_sales[i]],
              LAMBDA r : r.Status = "Success")

DashboardViews == pc # "start" /\ ~df_revenue.is_none /\ ~df_quantity.is_none
ScriptViews == sa_pc \in {"part2", "part4", "part5", "crashed5"}
BothRan == pc = "report" /\ ScriptViews

RevenueViews ==
    (IF DashboardViews THEN {df_revenue} ELSE {})
    \cup (IF ScriptViews THEN {df_revenue_analysis} ELSE {})

QuantityViews ==
    (IF DashboardViews THEN {df_quantity} ELSE {})
    \cup (IF ScriptViews THEN {df_quantity_analysis} ELSE {})

\* the rows of a view made from the raw row with index label i
RowsOf(view, i) == SelectSeq(view.rows, LAMBDA r : r.idx = i)

\* an item name is a key of a reference when some row of the reference carries it;
\* a missing name is a key when a row of the reference has a missing name
IsItemKey(name) == \E k \in 1..Len(src_name_ref) : src_name_ref[k].Item = name
IsComboKey(name) == \E k \in 1..Len(src_combo_ref) : src_combo_ref[k].ItemName = name

\* the component rows of a combo name, in the order of the combo reference
ComponentsOf(name) ==
    SelectSeq(src_combo_ref, LAMBDA c : name # NULL /\ c.ItemName = name)

CleanedFinalTotal ==
    nansum([i \in 1..Len(Cleaned) |-> to_numeric(Cleaned[i].FinalTotal)])

\* C1: revenue conservation.  In both programs the null-skipping sum of Final
\* Total over the Revenue View equals the null-skipping sum of Final Total over
\* the cleaned transactions, whatever duplicates the item reference holds.
C1_RevenueConservation ==
    \A view \in RevenueViews :
        nansum(column(view.rows, "FinalTotal")) = CleanedFinalTotal

\* both programs have built the Revenue View of a sale whose item name occurs
\* twice in the item reference, and the sale has a Final Total
C1_Witness ==
    /\ BothRan
    /\ CleanedFinalTotal > 0
    /\ \E i \in 1..Len(Cleaned) : \E j, k \in 1..Len(src_name_ref) :
         /\ j < k
         /\ src_name_ref[j].Item = Cleaned[i].ItemName
         /\ src_name_ref[k].Item = Cleaned[i].ItemName
         /\ src_name_ref[j] # src_name_ref[k]

\* C2: row-count invariant.  The Revenue View has exactly one row per cleaned
\* transaction, in the order of the cleaned transactions: the left join neither
\* fans a transaction out nor drops one.
C2_RowCount ==
    LET cleaned == Cleaned
    IN  \A view \in RevenueViews :
            /\ Len(view.rows) = Len(cleaned)
            /\ \A i \in 1..Len(cleaned) :
                 /\ view.rows[i].idx = cleaned[i].idx
                 /\ view.rows[i].InvoiceNo = cleaned[i].InvoiceNo
                 /\ view.rows[i].ItemName = cleaned[i].ItemName

\* two cleaned transactions of different invoices, the first without an entry in
\* the item reference and the second with one
C2_Witness ==
    /\ BothRan
    /\ Len(Cleaned) = 2
    /\ Cleaned[1].InvoiceNo # Cleaned[2].InvoiceNo
    /\ ~IsItemKey(Cleaned[1].ItemName)
    /\ IsItemKey(Cleaned[2].ItemName)

\* C3: component completeness.  For every cleaned combo transaction T the
\* Quantity View holds exactly one row per component row of T's combo name, in
\* the order of the combo reference, each with T's invoice id, the component's
\* canonical name and T's quantity (times the multiplicity 1).
C3_ComponentCompleteness ==
    LET cleaned == Cleaned
    IN  \A view \in QuantityViews : \A i \in 1..Len(cleaned) :
            LET T == cleaned[i]
                comps == ComponentsOf(T.ItemName)
                made == RowsOf(view, T.idx)
            IN  IsComboKey(T.ItemName) =>
                  /\ Len(made) = Len(comps)
                  /\ \A k \in 1..Len(made) :
                       /\ made[k].InvoiceNo = T.InvoiceNo
                       /\ made[k].RealItemName = comps[k].RealItemName
                       /\ made[k].Qty = to_numeric(T.Qty) * 1

\* a combo sale with a quantity whose combo has two different components has been
\* exploded by both programs
C3_Witness ==
    /\ BothRan
    /\ \E i \in 1..Len(Cleaned) :
         LET comps == ComponentsOf(Cleaned[i].ItemName)
         IN  /\ Len(comps) = 2
             /\ comps[1].RealItemName # comps[2].RealItemName
             /\ to_numeric(Cleaned[i].Qty) = 2
             /\ \A view \in QuantityViews : Len(RowsOf(view, Cleaned[i].idx)) = 2

\* C4: non-combo identity.  A cleaned transaction whose item name is not a key of
\* the combo reference has exactly one row in the Quantity View, and that row is
\* equal, column by column, to its row in the Revenue View of the same program.
C4_NonComboIdentity ==
    LET cleaned == Cleaned
        same(quantity, revenue, i) ==
            LET made == RowsOf(quantity, i)
            IN  Len(made) = 1 /\ made = RowsOf(revenue, i)
    IN  \A i \in 1..Len(cleaned) :
            ~IsComboKey(cleaned[i].ItemName) =>
              /\ DashboardViews => same(df_quantity, df_revenue, cleaned[i].idx)
              /\ ScriptViews =>
                   same(df_quantity_analysis, df_revenue_analysis, cleaned[i].idx)

\* a sale of an item that is no combo and has no entry in the item reference, next
\* to a combo sale that was exploded
C4_Witness ==
    /\ BothRan
    /\ \E i, j \in 1..Len(Cleaned) :
         /\ ~IsComboKey(Cleaned[i].ItemName)
         /\ ~IsItemKey(Cleaned[i].ItemName)
         /\ IsComboKey(Cleaned[j].ItemName)
         /\ Len(RowsOf(df_quantity, Cleaned[j].idx)) = 1
         /\ Len(RowsOf(df_quantity, Cleaned[i].idx)) = 1

\* C5: fallback.  A transaction whose item name has no entry in the item reference
\* gets its own item name as canonical name and "Unknown" as parent and sub
\* category, in the Revenue View and (when it is no combo) in the Quantity View.
C5_Fallback ==
    LET fallen(r) ==
            /\ r.RealItemName = r.ItemName
            /\ r.ParentCategory = Unknown
            /\ r.SubCategory = Unknown
    IN  /\ \A view \in RevenueViews : \A k \in 1..Len(view.rows) :
              ~IsItemKey(view.rows[k].ItemName) => fallen(view.rows[k])
        /\ \A view \in QuantityViews : \A k \in 1..Len(view.rows) :
              (~IsItemKey(view.rows[k].ItemName) /\ ~IsComboKey(view.rows[k].ItemName))
                  => fallen(view.rows[k])

\* the item reference has an entry, but for another item than the one sold
C5_Witness ==
    /\ BothRan
    /\ Len(src_name_ref) > 0
    /\ \E k \in 1..Len(df_revenue.rows) :
         /\ df_revenue.rows[k].ItemName = "B"
         /\ ~IsItemKey("B")
         /\ df_revenue.rows[k].RealItemName = "B"
         /\ \E q \in 1..Len(df_quantity.rows) : df_quantity.rows[q] = df_revenue.rows[k]

\* C8: status filter.  Every row of the four views, exploded component rows
\* included, was made from a raw transaction whose Status is "Success".
C8_StatusFilter ==
    \A view \in RevenueViews \cup QuantityViews : \A k \in 1..Len(view.rows) :
        /\ view.rows[k].Status = "Success"
        /\ src_sales[view.rows[k].idx + 1].Status = "Success"

\* a Failed row or a row without status precedes a successful combo sale, whose
\* component row is in the Quantity View
C8_Witness ==
    /\ BothRan
    /\ Len(src_sales) = 2
    /\ src_sales[1].Status # "Success"
    /\ Len(df_revenue.rows) = 1
    /\ IsComboKey(src_sales[2].ItemName)
    /\ Len(df_quantity.rows) = 1
    /\ df_quantity.rows[1].idx = 1

\* the first entry of the normalised item reference under a canonical name
EntriesNamed(name) ==
    SelectSeq(name_ref_clean(src_name_ref),
              LAMBDA m : name # NULL /\ m.RealItemName = name)

\* C6: an exploded component row never has a null parent category; a component
\* that is not in the item reference and has no category hint in the combo
\* reference gets the parent category "Unknown".
C6_UnknownParent ==
    \A view \in QuantityViews : \A i \in 1..Len(Cleaned) :
        LET T == Cleaned[i]
            comps == ComponentsOf(T.ItemName)
            made == RowsOf(view, T.idx)
        IN  (IsComboKey(T.ItemName) /\ Len(made) = Len(comps)) =>
              \A k \in 1..Len(made) :
                  /\ made[k].ParentCategory # NULL
                  /\ (EntriesNamed(comps[k].RealItemName) = <<>> /\ comps[k].Category = NULL)
                        => made[k].ParentCategory = Unknown

\* C7: category resolution order of an exploded component row: the first entry of
\* the item reference with the component's canonical name, else the hints of the
\* combo reference, the sub category falling back to the component's canonical
\* name and then to "Unknown".  A missing sub category of the entry may show as
\* "Unknown" and a missing category hint as "Unknown".
C7_ResolutionOrder ==
    \A view \in QuantityViews : \A i \in 1..Len(Cleaned) :
        LET T == Cleaned[i]
            comps == ComponentsOf(T.ItemName)
            made == RowsOf(view, T.idx)
        IN  (IsComboKey(T.ItemName) /\ Len(made) = Len(comps)) =>
              \A k \in 1..Len(made) :
                  LET c == comps[k]
                      entries == EntriesNamed(c.RealItemName)
                  IN  IF entries # <<>>
                      THEN /\ made[k].ParentCategory
                                \in {entries[1].ParentCategory,
                                     fillna(entries[1].ParentCategory, Unknown)}
                           /\ made[k].SubCategory = fillna(entries[1].SubCategory, Unknown)
                      ELSE /\ made[k].ParentCategory
                                \in {c.Category, fillna(c.Category, Unknown)}
                           /\ made[k].SubCategory =
                                IF c.SubCategory # NULL THEN c.SubCategory
                                ELSE fillna(c.RealItemName, Unknown)

\* C9: a cleaned transaction whose item name is recognised as a combo but has no
\* component row is kept out of the exploded rows and is named in a diagnostic
\* that load_data returns with the two views.
C9_ComboIntegrityDiagnostic ==
    DashboardViews =>
        \A i \in 1..Len(Cleaned) :
            (IsComboKey(Cleaned[i].ItemName) /\ ComponentsOf(Cleaned[i].ItemName) = <<>>)
                => /\ RowsOf(df_quantity, Cleaned[i].idx) = <<>>
                   /\ Cleaned[i].ItemName \in ld_diagnostics

\* C10: without a Status column, or without a row left by the Status filter,
\* load_data returns the failure pair and the dashboard never reaches the
\* reporting code.
C10_FailureSignalled ==
    (pc # "start" /\ src_readable /\ (~src_has_status \/ Cleaned = <<>>)) =>
        /\ df_revenue.is_none
        /\ df_quantity.is_none
        /\ pc # "report"

\* C11: fail fast, no partial output.  load_data returns both views or the pair
\* (None, None), never one view without the other; with the failure pair the
\* dashboard shows the failure message and stops, and the reporting code (filters,
\* metrics, tabs) is not reached.
C11_FailFast ==
    pc # "start" =>
        /\ df_revenue.is_none <=> df_quantity.is_none
        /\ (df_revenue.is_none \/ df_quantity.is_none) =>
              /\ pc \in {"loaded", "stopped"}
              /\ ErrLoading \in st_errors
              /\ pc = "stopped" => ErrFailed \in st_errors
        /\ pc = "report" => (~df_revenue.is_none /\ ~df_quantity.is_none)

\* SalesData has a row but no Status column: the dashboard has stopped on the
\* failure pair with both messages shown
C11_Witness ==
    /\ pc = "stopped"
    /\ src_sales # <<>>
    /\ ~src_has_status
    /\ ld_loaded
    /\ df_revenue.is_none
    /\ df_quantity.is_none
    /\ st_errors = {ErrLoading, ErrFailed}

\* the rows of the four views that exist
AllViews == RevenueViews \cup QuantityViews

\* the Date cells of the sheet that are dates
ParseableDates == {"2025-04-01", "2025-05-17"}

\* a row of a view has no date and no calendar feature
NoCalendar(r) ==
    /\ r.Date = NaN
    /\ r.Year = NaN
    /\ r.Month = NaN
    /\ r.Week = NaN
    /\ r.DayOfWeek = NULL

\* C12: a Success transaction whose Date cannot be parsed is in every view (as
\* itself or as its component rows), with a null Date and null Year, Month, Week
\* and DayOfWeek.
C12_UnparseableDateRetained ==
    \A i \in 1..Len(Cleaned) : \A view \in AllViews :
        LET made == RowsOf(view, Cleaned[i].idx)
        IN  Cleaned[i].Date \notin ParseableDates =>
              /\ made # <<>>
              /\ \A k \in 1..Len(made) : NoCalendar(made[k])

\* C13 as the specification words it: every row of every view has a date.
C13_DateNeverNull ==
    \A view \in AllViews : \A k \in 1..Len(view.rows) : view.rows[k].Date # NaN

\* C13: a row of a view made from a transaction whose Date is a date carries that
\* date and its calendar features, none of them null; a row made from a
\* transaction whose Date cannot be parsed has a null Date.
C13_DateParsedOrNull ==
    \A view \in AllViews : \A k \in 1..Len(view.rows) :
        LET r == view.rows[k]
            raw == src_sales[r.idx + 1].Date
        IN  IF raw \in ParseableDates
            THEN /\ r.Date # NaN
                 /\ r.Date = (IF raw = "2025-04-01" THEN 20250401 ELSE 20250517)
                 /\ r.Year = 2025
                 /\ r.Month \in {4, 5}
                 /\ r.Week \in {14, 20}
                 /\ r.DayOfWeek \in {"Tuesday", "Saturday"}
            ELSE r.Date = NaN

\* both programs hold a Revenue View with a row dated 17 May 2025 and a row
\* without a date, and the Quantity Views hold the same two transactions
C13_Witness ==
    /\ BothRan
    /\ Len(df_revenue.rows) = 2
    /\ df_revenue.rows[1].Date = 20250517
    /\ df_revenue.rows[2].Date = NaN
    /\ Len(df_revenue_analysis.rows) = 2
    /\ \A view \in QuantityViews :
         /\ RowsOf(view, 0) # <<>>
         /\ RowsOf(view, 1) # <<>>

\* the cells of the sheet that are numbers
ParseableNumbers == {"1", "2", "3"}

\* C14: a cell of Price, Qty., Sub Total, Discount, Tax or Final Total that cannot
\* be parsed as a number does not make the programs fail; the transaction is in
\* every view (as itself or as its component rows) with that column null, not
\* zero, and the sum of the column over the Revenue View is the sum of the cells
\* that are numbers.
C14_NumericParseRecovery ==
    src_has_status =>
        /\ pc # "start" => (~df_revenue.is_none /\ ~df_quantity.is_none)
        /\ sa_pc # "start" => sa_pc = "part2"
        /\ \A c \in numeric_cols :
             /\ \A i \in 1..Len(Cleaned) : \A view \in AllViews :
                  LET made == RowsOf(view, Cleaned[i].idx)
                  IN  Cleaned[i][c] \notin ParseableNumbers =>
                        /\ made # <<>>
                        /\ \A k \in 1..Len(made) : made[k][c] = NaN /\ made[k][c] # 0
             /\ \A view \in RevenueViews :
                  nansum(column(view.rows, c)) =
                      nansum([i \in 1..Len(Cleaned) |->
                                 IF Cleaned[i][c] \in ParseableNumbers
                                 THEN to_numeric(Cleaned[i][c]) ELSE 0])

\* C15: in the two views load_data returns every row, exploded component rows
\* included, has a non-null Outlet: "Unknown" when SalesData has no Outlet column
\* or the Outlet cell of the transaction is empty, the cell's value otherwise.
C15_OutletNeverNull ==
    DashboardViews =>
        \A view \in {df_revenue, df_quantity} : \A k \in 1..Len(view.rows) :
            LET r == view.rows[k]
                raw == src_sales[r.idx + 1].Outlet
            IN  /\ r.Outlet # NULL
                /\ r.Outlet = IF "Outlet" \in src_absent \/ raw = NULL THEN Unknown
                              ELSE raw

\* SalesData has an Outlet column; a sale with an empty Outlet cell was exploded
\* into two component rows and a sale of outlet Bandra is in both views
C15_Witness ==
    /\ pc = "report"
    /\ "Outlet" \notin src_absent
    /\ Len(src_sales) = 2
    /\ src_sales[1].Outlet = NULL
    /\ src_sales[2].Outlet = "Bandra"
    /\ Len(RowsOf(df_quantity, 0)) = 2
    /\ \A k \in 1..2 : RowsOf(df_quantity, 0)[k].Outlet = Unknown
    /\ df_revenue.rows[2].Outlet = "Bandra"
    /\ RowsOf(df_quantity, 1) # <<>>

\* C16: Sales Channel.  When SalesData has the column 'Online / Offline', the
\* Sales Channel of every row of every view is the cell of that column, whatever
\* Area says; otherwise it is "Delivery" exactly when Area is "Swiggy" and
\* "In-Shop" for every other Area, an empty one included.
C16_SalesChannel ==
    \A view \in AllViews : \A k \in 1..Len(view.rows) :
        LET r == view.rows[k]
            raw == src_sales[r.idx + 1]
        IN  r.SalesChannel =
                IF "OnlineOffline" \notin src_absent THEN raw.OnlineOffline
                ELSE IF raw.Area = "Swiggy" THEN "Delivery"
                ELSE "In-Shop"

\* the first row of the item reference sheet for a raw item name
FirstOf(name) ==
    src_name_ref[CHOOSE k \in 1..Len(src_name_ref) :
                    /\ src_name_ref[k].Item = name
                    /\ \A j \in 1..(k - 1) : src_name_ref[j].Item # name]

\* C17: once a program has normalised the item reference, the mapping has exactly
\* one entry per raw item name of the sheet and none for another name, the entry
\* is made from the first row of the sheet with that name, and a transaction with
\* that item name carries the canonical name, parent and sub category of that
\* first row (missing ones filled) in the Revenue View and, when it is no combo,
\* in the Quantity View.
C17_OneEntryFirstOccurrence ==
    LET mapping == name_ref_clean(src_name_ref)
        entry(name) == [ItemName |-> name, RealItemName |-> FirstOf(name).RealName,
                        ParentCategory |-> FirstOf(name).Parent,
                        SubCategory |-> FirstOf(name).SubCategory]
        resolved(r) ==
            /\ r.RealItemName = fillna(FirstOf(r.ItemName).RealName, r.ItemName)
            /\ r.ParentCategory = fillna(FirstOf(r.ItemName).Parent, Unknown)
            /\ r.SubCategory = fillna(FirstOf(r.ItemName).SubCategory, Unknown)
    IN  AllViews # {} =>
          /\ \A name \in ItemNames :
               LET entries == SelectSeq(mapping, LAMBDA m : m.ItemName = name)
               IN  IF IsItemKey(name) THEN entries = << entry(name) >>
                   ELSE entries = <<>>
          /\ \A view \in RevenueViews : \A k \in 1..Len(view.rows) :
               IsItemKey(view.rows[k].ItemName) => resolved(view.rows[k])
          /\ \A view \in QuantityViews : \A k \in 1..Len(view.rows) :
               (IsItemKey(view.rows[k].ItemName) /\ ~IsComboKey(view.rows[k].ItemName))
                   => resolved(view.rows[k])

\* the item reference has two different rows for the item sold, and both
\* programs resolved the sale with the first of them in both views
C17_Witness ==
    /\ BothRan
    /\ Len(src_name_ref) = 2
    /\ src_name_ref[1].Item = src_name_ref[2].Item
    /\ src_name_ref[1].Parent = "Food"
    /\ src_name_ref[2].Parent = "Drink"
    /\ Len(df_revenue.rows) = 1
    /\ df_revenue.rows[1].ItemName = src_name_ref[1].Item
    /\ \A view \in AllViews :
         /\ Len(view.rows) = 1
         /\ view.rows[1].ParentCategory = "Food"
         /\ view.rows[1].SubCategory = "Snack"

\* C20: combo partition.  In each program the Quantity View is the rows of the
\* Revenue View whose item name is no key of the combo reference, in order,
\* followed by rows made from transactions whose item name is such a key: a
\* transaction is on one side only, a combo transaction is never joined as a
\* standalone item, and without combo transactions the Quantity View is the
\* non-combo joined set, which then is the whole Revenue View.
C20_ComboPartition ==
    LET partitioned(quantity, revenue) ==
            LET joined == SelectSeq(revenue.rows, LAMBDA r : ~IsComboKey(r.ItemName))
                n == Len(joined)
            IN  /\ Len(quantity.rows) >= n
                /\ SubSeq(quantity.rows, 1, n) = joined
                /\ \A k \in (n + 1)..Len(quantity.rows) :
                     IsComboKey(quantity.rows[k].ItemName)
                /\ n = Len(revenue.rows) => quantity.rows = revenue.rows
    IN  /\ DashboardViews => partitioned(df_quantity, df_revenue)
        /\ ScriptViews => partitioned(df_quantity_analysis, df_revenue_analysis)

\* a combo sale followed by a sale of an item that is no combo: in both programs
\* the Quantity View starts with the second sale and ends with the component row
\* of the first
C20_Witness ==
    /\ BothRan
    /\ Len(Cleaned) = 2
    /\ IsComboKey(Cleaned[1].ItemName)
    /\ ~IsComboKey(Cleaned[2].ItemName)
    /\ \A view \in QuantityViews :
         /\ Len(view.rows) = 2
         /\ view.rows[1].idx = Cleaned[2].idx
         /\ view.rows[2].idx = Cleaned[1].idx
         /\ view.rows[2].RealItemName # view.rows[2].ItemName

\* C18: refresh.  The call of load_data in the run that the Refresh Data button
\* started runs the body: the sources are read again, the two views are rebuilt
\* from the sources as they are now and a new cache entry is made, whether or
\* not the entry that was cleared was still fresh.
C18_RefreshRebuilds ==
    [][(trigger = "refresh" /\ pc = "start" /\ pc' = "loaded") =>
          /\ loads' = loads + 1
          /\ load_log' = ld_attempts
          /\ load_log' # <<>>
          /\ << df_revenue', df_quantity' >> = ld_returned
          /\ cache'.filled
          /\ cache'.at = now]_vars

\* the button was pressed and the body ran for the second time at time 149, when
\* no entry can be 300 seconds old, and returned views with one row
C18_Witness ==
    /\ trigger = "refresh"
    /\ pc = "loaded"
    /\ loads = 2
    /\ now = 149
    /\ now < TTL
    /\ cache.filled
    /\ cache.at = 149
    /\ src_sales # <<>>
    /\ ~df_revenue.is_none
    /\ Len(df_revenue.rows) = 1
    /\ Len(df_quantity.rows) = 1

\* a source that load_data tried could not be read
FailedAttempt(source) ==
    \/ source = "gsheets" /\ ~gs_readable
    \/ source = "excel" /\ ~src_readable

\* C19: bounded loading.  One call of load_data runs its body once and tries at
\* most two sources: Google Sheets once and then data.xlsx once, or data.xlsx
\* alone; data.xlsx is read only when Google Sheets is not enabled or its
\* attempt failed; when every source tried has failed the call returns the
\* failure pair with the error message shown, and the dashboard does not go on.
C19_BoundedLoading ==
    pc # "start" =>
        /\ loads = 1
        /\ Len(load_log) <= 2
        /\ load_log \in { << "gsheets" >>, << "gsheets", "excel" >>, << "excel" >> }
        /\ (load_log[1] = "gsheets") <=> gs_enabled
        /\ (\E k \in 1..Len(load_log) : load_log[k] = "excel")
              => (~gs_enabled \/ FailedAttempt("gsheets"))
        /\ (\A k \in 1..Len(load_log) : FailedAttempt(load_log[k])) =>
              /\ df_revenue.is_none
              /\ df_quantity.is_none
              /\ ErrLoading \in st_errors
              /\ pc \in {"loaded", "stopped"}

\* Google Sheets is enabled, neither the spreadsheet nor data.xlsx can be read:
\* both were tried once and the dashboard has stopped on the failure pair
C19_Witness ==
    /\ pc = "stopped"
    /\ gs_enabled
    /\ ~gs_readable
    /\ ~src_readable
    /\ loads = 1
    /\ load_log = << "gsheets", "excel" >>
    /\ df_revenue.is_none
    /\ ErrLoading \in st_errors

\* the columns in which an exploded component row may differ from the combo sale
ExplodedCols == {"RealItemName", "Qty", "ParentCategory", "SubCategory"}
MoneyCols == {"Price", "SubTotal", "Discount", "Tax", "FinalTotal"}

\* C21: explosion frame.  In each program a component row of the Quantity View
\* has the columns of the combo sale it was made from and, outside the canonical
\* name, the quantity and the two categories, the values of that sale as the
\* Revenue View of the same program holds them: invoice id, date, outlet, sales
\* channel, Price, Sub Total, Discount, Tax and Final Total.  The monetary
\* columns are the parsed cells of the sale, whole in every component row.
C21_ExplosionFrame ==
    LET framed(quantity, revenue) ==
            \A k \in 1..Len(quantity.rows) :
                LET q == quantity.rows[k]
                    raw == src_sales[q.idx + 1]
                    sale == RowsOf(revenue, q.idx)
                IN  IsComboKey(q.ItemName) =>
                      /\ Len(sale) = 1
                      /\ DOMAIN q = DOMAIN sale[1]
                      /\ \A c \in (DOMAIN q) \ ExplodedCols : q[c] = sale[1][c]
                      /\ q.InvoiceNo = raw.InvoiceNo
                      /\ q.Date = to_datetime(raw.Date)
                      /\ q.SalesChannel = sale[1].SalesChannel
                      /\ \A c \in MoneyCols : q[c] = to_numeric(raw[c])
    IN  /\ DashboardViews => framed(df_quantity, df_revenue)
        /\ ScriptViews => framed(df_quantity_analysis, df_revenue_analysis)

\* a combo sale with Final Total 3 and Tax 1, dated 1 April 2025, was exploded by
\* both programs into two component rows, each of which carries the whole Final
\* Total and the whole Tax
C21_Witness ==
    /\ BothRan
    /\ Len(src_sales) = 1
    /\ IsComboKey(src_sales[1].ItemName)
    /\ \A view \in QuantityViews :
         /\ Len(view.rows) = 2
         /\ view.rows[1].RealItemName # view.rows[2].RealItemName
         /\ \A k \in 1..2 :
              /\ view.rows[k].FinalTotal = 3
              /\ view.rows[k].Tax = 1
              /\ view.rows[k].Date = 20250401
              /\ view.rows[k].InvoiceNo = 1

\* C22: cache freshness window.  A call of load_data that finds an entry fewer
\* than 300 seconds old (no refresh has cleared it) returns the pair of that
\* entry, reads no source and leaves the entry as it is; a call that finds the
\* entry 300 seconds old or older, or no entry, runs the body, which reads the
\* sources and builds both views from the sources as they are at that time.
C22_FreshnessWindow ==
    [][(pc = "start" /\ pc' = "loaded") =>
          IF cache.filled /\ now - cache.at < 300
          THEN /\ loads' = loads
               /\ load_log' = <<>>
               /\ << df_revenue', df_quantity' >> = << df_revenue, df_quantity >>
               /\ cache' = cache
          ELSE /\ loads' = loads + 1
               /\ load_log' = ld_attempts
               /\ load_log' # <<>>
               /\ << df_revenue', df_quantity' >> = ld_returned
               /\ cache' = cache_entry(now, st_errors' \ st_errors)]_vars

\* the body ran for the second time at time 300; the call of a later run, at
\* time 599 at the latest, read no source and returned the views with one row
\* that the entry of time 300 holds, although SalesData is empty by now
C22_Witness ==
    /\ pc = "loaded"
    /\ trigger = "widget"
    /\ load_log = <<>>
    /\ loads = 2
    /\ cache.filled
    /\ cache.at = 300
    /\ now = 599
    /\ src_readable
    /\ src_sales = <<>>
    /\ ~df_revenue.is_none
    /\ Len(df_revenue.rows) = 1
    /\ Len(df_quantity.rows) = 1

\* the number of days of 2025 before the first of each month
DaysBefore == << 0, 31, 59, 90, 120, 151, 181, 212, 243, 273, 304, 334 >>

\* the position of a date of 2025 in the year
DayOfYear(d) == DaysBefore[(d \div 100) % 100] + (d % 100)

\* the dashboard has made its daily revenue series in this run
DailyMade == pc \in {"tab7", "tab8", "done"}

\* C23: the daily revenue series of each program has one entry per calendar day
\* from the earliest to the latest date of the program's Revenue View, each day
\* following the day before; the entry of a day is the null-skipping sum of Final
\* Total over the rows of that date, 0 for a day without rows; the rows without
\* a date are in no entry.
C23_DailyRevenueSeries ==
    LET daily(series, view) ==
            LET s == series.rows
                dated == SelectSeq(view.rows, LAMBDA r : r.Date # NaN)
                dates == { dated[i].Date : i \in 1..Len(dated) }
                first == CHOOSE d \in dates : \A e \in dates : DayOfYear(d) <= DayOfYear(e)
                last == CHOOSE d \in dates : \A e \in dates : DayOfYear(d) >= DayOfYear(e)
                on(d) == SelectSeq(view.rows, LAMBDA r : r.Date = d)
            IN  /\ dates # {}
                /\ Len(s) = DayOfYear(last) - DayOfYear(first) + 1
                /\ s[1].key = first
                /\ s[Len(s)].key = last
                /\ \A i \in 1..(Len(s) - 1) :
                     /\ s[i].key < s[i + 1].key
                     /\ DayOfYear(s[i + 1].key) = DayOfYear(s[i].key) + 1
                /\ \A i \in 1..Len(s) :
                     /\ s[i].key \div 10000 = 2025
                     /\ s[i].value = nansum(column(on(s[i].key), "FinalTotal"))
                     /\ on(s[i].key) = <<>> => s[i].value = 0
                /\ nansum(column(s, "value")) = nansum(column(dated, "FinalTotal"))
    IN  /\ DailyMade => daily(daily_revenue, df_revenue)
        /\ sa_pc = "part5" => daily(sa_daily_revenue, df_revenue_analysis)

\* a sale of 3 on 29 April, a sale of 2 on 1 May and a sale without a date: both
\* programs made the series 3, 0, 2 for 29 April, 30 April and 1 May
C23_Witness ==
    /\ pc = "done"
    /\ sa_pc = "part5"
    /\ Len(df_revenue.rows) = 3
    /\ \E k \in 1..3 : df_revenue.rows[k].Date = NaN /\ df_revenue.rows[k].FinalTotal = 1
    /\ \A series \in {daily_revenue, sa_daily_revenue} :
         series.rows = << [key |-> 20250429, value |-> 3],
                          [key |-> 20250430, value |-> 0],
                          [key |-> 20250501, value |-> 2] >>

\* the programs have made their basket matrix
BasketMade == pc \in {"tab6", "tab7", "tab8", "done"}
ScriptBasketMade == sa_pc \in {"part4", "part5", "crashed5"}

\* C24: the basket matrix of the dashboard (made from the filtered Revenue View)
\* and of the script (made from the Revenue View) has one row per invoice and one
\* column per canonical item name of that view, every cell is 0 or 1, and a cell
\* is 1 exactly when the view has a line of that invoice for that item.
C24_BasketMatrix ==
    LET presence(matrix, view) ==
            LET lines == view.rows
            IN  /\ matrix.index = { lines[i].InvoiceNo : i \in 1..Len(lines) }
                /\ matrix.columns = { lines[i].RealItemName : i \in 1..Len(lines) }
                /\ \A inv \in matrix.index : \A name \in matrix.columns :
                     /\ matrix.cell[<<inv, name>>] \in {0, 1}
                     /\ matrix.cell[<<inv, name>>] = 1 <=>
                            \E i \in 1..Len(lines) :
                                lines[i].InvoiceNo = inv /\ lines[i].RealItemName = name
    IN  /\ BasketMade => presence(basket_binary, df_filtered)
        /\ ScriptBasketMade => presence(sa_basket_binary, df_revenue_analysis)

\* C25: no transaction is lost from the Quantity View.  Every cleaned
\* transaction, whatever its item name (a missing name and a name that is a key of
\* both references included), has at least one row in the Quantity View of each
\* program, and that row carries its invoice id.
C25_NoTransactionLost ==
    \A view \in QuantityViews : \A i \in 1..Len(Cleaned) :
        LET made == RowsOf(view, Cleaned[i].idx)
        IN  /\ made # <<>>
            /\ \A k \in 1..Len(made) : made[k].InvoiceNo = Cleaned[i].InvoiceNo

\* the component-level units of a Quantity View
Units(view) ==
    [i \in 1..Len(view.rows) |->
        << view.rows[i].InvoiceNo, view.rows[i].RealItemName, view.rows[i].Qty,
           view.rows[i].ParentCategory, view.rows[i].SubCategory >>]

\* C26: for the same three sheets the Quantity View of sales_analysis.py and the
\* Quantity View of dashboard.load_data hold the same multiset of (invoice id,
\* canonical item name, quantity, parent category, sub category).
C26_ScriptDashboardAgree ==
    BothRan =>
        LET ld == Units(df_quantity)
            sa == Units(df_quantity_analysis)
            times(units, u) == Cardinality({ j \in 1..Len(units) : units[j] = u })
        IN  /\ Len(ld) = Len(sa)
            /\ \A i \in 1..Len(ld) : times(ld, ld[i]) = times(sa, ld[i])

\* the run of the dashboard has applied the sidebar filters
FiltersApplied == pc \in {"filtered", "empty", "metrics", "tab3", "tab6", "tab7", "tab8", "done"}
MetricsMade == pc \in {"metrics", "tab3", "tab6", "tab7", "tab8", "done"}

\* every sidebar widget shows what it showed first: 'All' three times and the
\* date range from the earliest to the latest date of the Revenue View
SidebarAtDefault ==
    /\ selected.outlet = "All"
    /\ selected.dates = "default"
    /\ selected.channel = "All"
    /\ selected.category = "All"

\* C27: with every sidebar filter at 'All' and the date range at its default the
\* filtered dataset holds every row of the Revenue View, the rows without a date
\* included, and the metrics report total revenue and order count as 100.0% of
\* total.
C27_DefaultFiltersKeepAll ==
    SidebarAtDefault =>
        /\ FiltersApplied => df_filtered.rows = df_revenue.rows
        /\ MetricsMade =>
             /\ metrics.total_revenue = nansum(column(df_revenue.rows, "FinalTotal"))
             /\ metrics.revenue_percent = 1000
             /\ metrics.orders_percent = 1000

\* the run of the dashboard has drawn the charts of tab3
TimelineMade == pc \in {"tab3", "tab6", "tab7", "tab8", "done"}

\* the rows of the timeline that have a date
DatedTimeline ==
    SelectSeq(df_filtered.rows,
              LAMBDA r : /\ r.Date # NaN
                         /\ selected.timeline_parent \in {"All", r.ParentCategory})

\* C28: the chart of revenue by week of month is complete.  Every timeline row
\* with a date falls into exactly one of the buckets shown, 'Week 1' to 'Week 4'
\* for the days 1-7, 8-14, 15-21 and 22-28 and 'Week 4+' for the days after, so
\* the revenues of the buckets add up to the Final Total of the dated timeline.
C28_WeekOfMonthComplete ==
    TimelineMade =>
        LET chart == week_of_month_revenue.rows
            bucket(d) == IF (d % 100) <= 28 THEN ((d % 100) - 1) \div 7 + 1 ELSE 5
            of(b) == SelectSeq(DatedTimeline, LAMBDA r : bucket(r.Date) = b)
        IN  /\ Len(chart) = 5
            /\ \A b \in 1..5 :
                 /\ chart[b].key = WeekBuckets[b]
                 /\ chart[b].value = nansum(column(of(b), "FinalTotal"))
            /\ nansum(column(chart, "value")) = nansum(column(DatedTimeline, "FinalTotal"))

\* C29: forecast week boundaries.  Whatever the weekday of the day a tab reads
\* from the clock, its Week 1 starts on the first Monday strictly after that day
\* (1 to 7 days ahead, 7 when the day is a Monday) and ends 6 days later on a
\* Sunday, its Week 2 starts 7 days after the start of Week 1 and ends 6 days
\* later; the Weekly Unit Forecast tab and the Send Targets tab compute the same
\* boundaries from the same day.
C29_ForecastWeeks ==
    LET bounded(w) ==
            LET ahead == w.week1_start - w.today
            IN  /\ ahead \in 1..7
                /\ ahead = 7 <=> w.today % 7 = 0
                /\ ahead = 7 - (w.today % 7)
                /\ w.week1_start % 7 = 0
                /\ \A d \in (w.today + 1)..(w.week1_start - 1) : d % 7 # 0
                /\ w.week1_end = w.week1_start + 6
                /\ w.week1_end % 7 = 6
                /\ w.week2_start = w.week1_start + 7
                /\ w.week2_end = w.week2_start + 6
    IN  /\ ~weeks_forecast.is_none => bounded(weeks_forecast)
        /\ ~weeks_targets.is_none => bounded(weeks_targets)
        /\ (~weeks_forecast.is_none /\ ~weeks_targets.is_none
               /\ weeks_forecast.today = weeks_targets.today)
              => weeks_forecast = weeks_targets

\* on a Monday, a week after the first Monday, the forecast button and then the
\* targets button were pressed: both tabs start Week 1 on the Monday after
C29_Witness ==
    /\ pc = "done"
    /\ trigger = "targets"
    /\ today = 7
    /\ ~weeks_forecast.is_none
    /\ ~weeks_targets.is_none
    /\ weeks_forecast.today = 7
    /\ weeks_targets.today = 7
    /\ weeks_targets.week1_start = 14
    /\ weeks_targets.week2_end = 27
    /\ weeks_forecast = weeks_targets

\* C30: a failed load is cached like a success.  Once a call of load_data has
\* returned the failure pair, a call in a later run that no refresh started and
\* that comes fewer than 300 seconds after the failed call returns the failure
\* pair again, with its error message, and tries no source, even if data.xlsx can
\* be read by then; the body runs again only in the first run, in a run that the
\* Refresh Data button started, or when the entry is 300 seconds old or older.
C30_FailedLoadCached ==
    [][(pc = "start" /\ pc' = "loaded") =>
          /\ (/\ loads >= 1
              /\ df_revenue.is_none
              /\ df_quantity.is_none
              /\ trigger = "widget"
              /\ now - cache.at < 300)
                => /\ << df_revenue', df_quantity' >> = << NoneValue, NoneValue >>
                   /\ loads' = loads
                   /\ load_log' = <<>>
                   /\ ErrLoading \in st_errors'
          /\ loads' # loads =>
                \/ trigger \in {"open", "refresh"}
                \/ now - cache.at >= 300]_vars

\* data.xlsx could not be read at time 0 and is back with a sale in it; the call
\* of a later run, 299 seconds after the failed one at the latest, tried no
\* source and the dashboard has stopped on the failure pair again
C30_Witness ==
    /\ pc = "stopped"
    /\ trigger = "widget"
    /\ loads = 1
    /\ load_log = <<>>
    /\ cache.filled
    /\ cache.at = 0
    /\ now = 299
    /\ src_readable
    /\ src_sales # <<>>
    /\ df_revenue.is_none
    /\ df_quantity.is_none
    /\ st_errors = {ErrLoading, ErrFailed}

====
